---- MODULE Spec2Model ----
(***************************************************************************)
(* A model of the SAPDA execution engine: the configuration structures of  *)
(* Structure.py (Leaf, Tree, transitions, synchronisation) and the search  *)
(* of Computation.py (deterministic drive, dfs, backtrack, bfs).           *)
(*                                                                         *)
(* Python strings are sequences of one-character strings: the input 'ab'   *)
(* is <<"a","b">>, the empty word 'e' is <<"e">>, the push string 'AZ' is   *)
(* <<"A","Z">>.  A stack is a sequence with its top at position 1.          *)
(***************************************************************************)
EXTENDS Integers, Sequences, FiniteSets, TLC

VARIABLES
    sapda,          \* the automaton (self.sapda), its transition sets in iteration order
    input_string,   \* self.input_string
    pc,             \* the position of the program
    caller,         \* who called run_deterministic_transitions
    cur,            \* the Computation run_deterministic_transitions works on
    branches,       \* the list the for loop of the drive iterates over (line 201)
    bi,             \* the position of that for loop
    verdict,        \* what run_deterministic_transitions returned
    dself,          \* the Computation dfs was called on (self of dfs)
    depth,          \* the depth argument of dfs
    path,           \* the path argument of dfs: the backtrack frames
    li,             \* dfs / bfs: position of the loop over leaves
    ti,             \* dfs / bfs: position of the loop over transitions
    result,         \* what run_machine returned
    root,           \* the Computation after the first deterministic drive
    paths,          \* bfs: the queue of Computations
    bfs_result,     \* what bfs returned
    clock,          \* steps spent under the 20 s budget of dfs / bfs
    nbacktrack,     \* history: the number of backtracks that returned to dfs
    call,           \* a call of one method of Structure.py or Computation.py on its own
    ret             \* what that call returned

vars == <<sapda, input_string, pc, caller, cur, branches, bi, verdict, dself,
          depth, path, li, ti, result, root, paths, bfs_result, clock, nbacktrack,
          call, ret>>

-----------------------------------------------------------------------------
(* Bounds of the model *)

\* sapda1 is run on every word over {a,b,c} of at most this length
MaxLen1 == 4
\* sapda4 is run on 0^k for k up to this
MaxK == 4
\* the small automata are run on every word of at most this length
MaxLenSmall == 2
\* words with a foreign letter have at most this length
MaxBadLen == 2
\* the steps dfs (or bfs) may take before the time budget is exhausted
MaxClock == 150
\* the reference semantics looks at configurations of at most this size
MaxSemSize == 9
\* the trace of the first drive is kept up to this many configurations
MaxTrace == 40

-----------------------------------------------------------------------------
(* Helpers on sequences *)

Last(s) == s[Len(s)]

RECURSIVE Concat(_)
Concat(ss) == IF ss = <<>> THEN <<>> ELSE Head(ss) \o Concat(Tail(ss))

Range(s) == {s[i] : i \in DOMAIN s}

InSeq(x, s) == \E i \in DOMAIN s : s[i] = x

\* all words over the letters L of length exactly n
RECURSIVE WordsOfLen(_, _)
WordsOfLen(L, n) ==
    IF n = 0 THEN {<<>>}
    ELSE {<<a>> \o w : a \in L, w \in WordsOfLen(L, n - 1)}

\* the non-empty words over L up to length n, and the empty word 'e'
Words(L, n) == {<<"e">>} \cup UNION {WordsOfLen(L, k) : k \in 1..n}

\* the enumerations of a finite set: the orders a Python set can iterate in
SeqsOf(S) == {s \in [1..Cardinality(S) -> S] : Range(s) = S}

-----------------------------------------------------------------------------
(* The automata *)

e1 == <<"e">>

sapda1 ==
    [name |-> "sapda1",
     input_alphabet |-> {"a", "b", "c"},
     initial_state |-> "q0",
     initial_stack_symbol |-> "Z",
     transitions |->
        ("q0" :> ("Z" :> ("e" :> {<< <<"qbc+", <<"Z">>>>, <<"qac+", <<"Z">>>> >>})))
     @@ ("qbc+" :> (   ("Z" :> (   ("a" :> {<< <<"qbc+", <<"Z">>>> >>})
                                @@ ("b" :> {<< <<"qbc+", <<"A", "Z">>>> >>})))
                    @@ ("A" :> (   ("b" :> {<< <<"qbc+", <<"A", "A">>>> >>})
                                @@ ("c" :> {<< <<"qbc-", e1>> >>})))))
     @@ ("qbc-" :> (   ("A" :> ("c" :> {<< <<"qbc-", e1>> >>}))
                    @@ ("Z" :> ("e" :> {<< <<"q0", e1>> >>}))))
     @@ ("qac+" :> (   ("Z" :> ("a" :> {<< <<"qac+", <<"A", "Z">>>> >>}))
                    @@ ("A" :> (   ("a" :> {<< <<"qac+", <<"A", "A">>>> >>})
                                @@ ("b" :> {<< <<"qb", <<"A">>>> >>})))))
     @@ ("qb" :> ("A" :> (   ("b" :> {<< <<"qb", <<"A">>>> >>})
                          @@ ("c" :> {<< <<"qac-", e1>> >>}))))
     @@ ("qac-" :> (   ("A" :> ("c" :> {<< <<"qac-", e1>> >>}))
                    @@ ("Z" :> ("e" :> {<< <<"q0", e1>> >>}))))]

sapda4 ==
    [name |-> "sapda4",
     input_alphabet |-> {"0"},
     initial_state |-> "q",
     initial_stack_symbol |-> "A",
     transitions |->
        ("q" :> (   ("A" :> ("e" :> {<< <<"q", <<"A", "C">>>>, <<"q", <<"B", "B">>>> >>,
                                     << <<"q", <<"0">>>> >>}))
                 @@ ("B" :> ("e" :> {<< <<"q", <<"A", "A">>>>, <<"q", <<"B", "D">>>> >>,
                                     << <<"q", <<"0", "0">>>> >>}))
                 @@ ("C" :> ("e" :> {<< <<"q", <<"A", "B">>>>, <<"q", <<"D", "D">>>> >>,
                                     << <<"q", <<"0", "0", "0">>>> >>}))
                 @@ ("D" :> ("e" :> {<< <<"q", <<"A", "B">>>>, <<"q", <<"C", "C">>>> >>}))
                 @@ ("0" :> ("0" :> {<< <<"q", e1>> >>}))))]

pda ==
    [name |-> "pda",
     input_alphabet |-> {"a", "b"},
     initial_state |-> "q0",
     initial_stack_symbol |-> "Z",
     transitions |->
        ("q0" :> ("Z" :> (   ("a" :> {<< <<"q1", <<"A", "Z">>>> >>})
                          @@ ("e" :> {<< <<"q0", e1>> >>}))))
     @@ ("q1" :> ("A" :> (   ("a" :> {<< <<"q1", <<"A", "A">>>> >>})
                          @@ ("b" :> {<< <<"q2", e1>> >>}))))
     @@ ("q2" :> (   ("A" :> ("b" :> {<< <<"q2", e1>> >>}))
                  @@ ("Z" :> ("e" :> {<< <<"q3", e1>> >>}))))]

\* Two conjuncts that converge on the same state: the language is {bb}.
conv ==
    [name |-> "conv",
     input_alphabet |-> {"b"},
     initial_state |-> "q0",
     initial_stack_symbol |-> "Z",
     transitions |->
        ("q0" :> (   ("Z" :> ("e" :> {<< <<"q0", <<"X", "B">>>> >>}))
                  @@ ("X" :> ("e" :> {<< <<"q1", <<"A">>>>, <<"q2", <<"A">>>> >>}))))
     @@ ("q1" :> ("A" :> ("e" :> {<< <<"q3", <<"C">>>> >>})))
     @@ ("q2" :> ("A" :> ("e" :> {<< <<"q3", <<"C">>>> >>})))
     @@ ("q3" :> (   ("C" :> ("e" :> {<< <<"q3", e1>> >>}))
                  @@ ("B" :> ("b" :> {<< <<"q3", <<"D">>>> >>}))
                  @@ ("D" :> ("b" :> {<< <<"q3", e1>> >>}))))]

\* A choice between two states, each with a further choice: the language is {a}.
choice ==
    [name |-> "choice",
     input_alphabet |-> {"a", "b"},
     initial_state |-> "q0",
     initial_stack_symbol |-> "Z",
     transitions |->
        ("q0" :> ("Z" :> ("e" :> {<< <<"q1", <<"Z">>>> >>, << <<"q2", <<"Z">>>> >>})))
     @@ ("q1" :> ("Z" :> ("e" :> {<< <<"q3", <<"A">>>> >>, << <<"q3", <<"A", "A">>>> >>})))
     @@ ("q2" :> ("Z" :> (   ("a" :> {<< <<"q2", e1>> >>})
                          @@ ("b" :> {<< <<"q3", <<"A">>>> >>, << <<"q3", <<"A", "A">>>> >>}))))]

\* An automaton whose search never ends: every configuration has two moves.
loopy ==
    [name |-> "loopy",
     input_alphabet |-> {"a"},
     initial_state |-> "q0",
     initial_stack_symbol |-> "Z",
     transitions |->
        ("q0" :> ("Z" :> ("e" :> {<< <<"q0", <<"Z", "Z">>>> >>, << <<"q0", <<"Z", "A">>>> >>})))]

\* a conjunction whose two branches split into equal leaves
twin ==
    [name |-> "twin",
     input_alphabet |-> {"a"},
     initial_state |-> "q0",
     initial_stack_symbol |-> "Z",
     transitions |->
        ("q0" :> ("Z" :> ("e" :> {<< <<"q1", <<"X">>>>, <<"q1", <<"Y">>>> >>}))) @@
        ("q1" :> (("X" :> ("e" :> {<< <<"q2", <<"A">>>>, <<"q2", <<"A">>>> >>})) @@
                  ("Y" :> ("e" :> {<< <<"q2", <<"A">>>>, <<"q2", <<"A">>>> >>})))) @@
        ("q2" :> (("A" :> ("a" :> {<< <<"q2", <<"B">>>> >>})) @@
                  ("B" :> ("a" :> {<< <<"q2", <<"e">>>> >>}))))]

\* a single forced epsilon-transition that leaves the configuration as it is
spin ==
    [name |-> "spin",
     input_alphabet |-> {"a"},
     initial_state |-> "q0",
     initial_stack_symbol |-> "Z",
     transitions |->
        ("q0" :> ("Z" :> ("e" :> {<< <<"q0", <<"Z">>>> >>})))]

\* a choice between emptying the stack and an epsilon-cycle back to the same leaf
again ==
    [name |-> "again",
     input_alphabet |-> {"a"},
     initial_state |-> "q0",
     initial_stack_symbol |-> "Z",
     transitions |->
        ("q0" :> ("Z" :> ("e" :> {<< <<"q1", <<"Z">>>> >>, << <<"q0", e1>> >>})))
     @@ ("q1" :> ("Z" :> ("e" :> {<< <<"q0", <<"Z">>>> >>})))]

Automata == {sapda1, sapda4, pda, conv, choice, loopy, twin, spin, again}

\* the keys (state, stack symbol, letter) of a transition table
TransitionKeys(t) ==
    UNION {UNION {{<<q, s, l>> : l \in DOMAIN t[q][s]} : s \in DOMAIN t[q]} : q \in DOMAIN t}

\* every way of fixing an iteration order for each set of alternatives
RECURSIVE IterationOrders(_, _)
IterationOrders(t, keys) ==
    IF keys = {} THEN {<<>>}
    ELSE LET k == CHOOSE x \in keys : TRUE
         IN  {(k :> s) @@ f : s \in SeqsOf(t[k[1]][k[2]][k[3]]),
                              f \in IterationOrders(t, keys \ {k})}

\* the transition table with each set of alternatives in the order f gives it
Ordered(t, f) ==
    [q \in DOMAIN t |-> [s \in DOMAIN t[q] |-> [l \in DOMAIN t[q][s] |-> f[<<q, s, l>>]]]]

\* the automaton as the engine sees it in one process
Loaded(a) ==
    {[a EXCEPT !.transitions = Ordered(a.transitions, f)] :
        f \in IterationOrders(a.transitions, TransitionKeys(a.transitions))}

-----------------------------------------------------------------------------
(* Structure.py: Leaf and Tree *)

\* Leaf.__init__: a leaf of the configuration
Leaf(stack, state, remaining_input, internal_stack, d) ==
    [kind |-> "Leaf", stack |-> stack, state |-> state,
     remaining_input |-> remaining_input, internal_stack |-> internal_stack,
     depth |-> d, children |-> <<>>]

\* Tree.__init__: an internal node; state and remaining_input are None
Tree(stack, children) ==
    [kind |-> "Tree", stack |-> stack, state |-> "None",
     remaining_input |-> <<>>, internal_stack |-> <<>>,
     depth |-> 0, children |-> children]

\* the value None, which split_leaf returns after printing an error
NoneStructure ==
    [kind |-> "None", stack |-> <<>>, state |-> "None",
     remaining_input |-> <<>>, internal_stack |-> <<>>,
     depth |-> 0, children |-> <<>>]

\* Leaf.__eq__ and Tree.__eq__: equal fields, children equal pairwise
StructureEq(a, b) == a = b

has_empty_stack(s) == s.stack = <<"e">>

get_dict_key(leaf) ==
    <<leaf.state, leaf.remaining_input, leaf.stack, leaf.internal_stack, leaf.depth>>

\* Leaf.has_valid_transition
has_valid_transition(leaf) ==
    /\ leaf.state \in DOMAIN sapda.transitions
    /\ ~has_empty_stack(leaf)
    /\ leaf.stack[1] \in DOMAIN sapda.transitions[leaf.state]
    /\ \/ leaf.remaining_input[1] \in DOMAIN sapda.transitions[leaf.state][leaf.stack[1]]
       \/ "e" \in DOMAIN sapda.transitions[leaf.state][leaf.stack[1]]

RECURSIVE get_all_leaves(_)
get_all_leaves(s) ==
    IF s.kind = "Leaf" THEN <<s>>
    ELSE Concat([i \in 1..Len(s.children) |-> get_all_leaves(s.children[i])])

\* Leaf.get_active_branches and Tree.get_active_branches
get_active_branches(s) == SelectSeq(get_all_leaves(s), has_valid_transition)

Max(S) == CHOOSE x \in S : \A y \in S : y <= x

RECURSIVE get_tree_depth(_)
get_tree_depth(s) ==
    IF s.kind = "Leaf" THEN 0
    ELSE 1 + Max({get_tree_depth(s.children[i]) : i \in 1..Len(s.children)})

\* consume slicing the input without the test for its last letter
consume_slice(letter, remaining_input) ==
    IF letter = "e" THEN remaining_input
    ELSE Tail(remaining_input)

\* the remaining input after a transition reading `letter`
consume(letter, remaining_input) ==
    IF letter = "e" THEN remaining_input
    ELSE IF Len(remaining_input) = 1 THEN <<"e">>
    ELSE Tail(remaining_input)

\* leaf_stack_transition that keeps the 'e' under the pushed symbols
leaf_stack_transition_keep_e(leaf, pop_symbol, push_string) ==
    IF Len(leaf.stack) = 0 THEN leaf
    ELSE IF leaf.stack[1] # pop_symbol THEN leaf
    ELSE LET popped == IF Len(leaf.stack) = 1 THEN <<"e">> ELSE Tail(leaf.stack)
             pushed == IF push_string # <<"e">> THEN push_string \o popped ELSE popped
         IN  [leaf EXCEPT !.stack = pushed]

\* leaf_stack_transition pushing the symbols in the order of the string, so
\* that its last symbol ends on top
leaf_stack_transition_unreversed(leaf, pop_symbol, push_string) ==
    IF Len(leaf.stack) = 0 THEN leaf
    ELSE IF leaf.stack[1] # pop_symbol THEN leaf
    ELSE LET popped == IF Len(leaf.stack) = 1 THEN <<"e">> ELSE Tail(leaf.stack)
             reversed == [i \in 1..Len(push_string) |->
                             push_string[Len(push_string) + 1 - i]]
             pushed == IF push_string # <<"e">> THEN reversed \o popped ELSE popped
             stripped == IF Len(pushed) > 1 /\ Last(pushed) = "e"
                         THEN SubSeq(pushed, 1, Len(pushed) - 1) ELSE pushed
         IN  [leaf EXCEPT !.stack = stripped]

\* Leaf.leaf_stack_transition
leaf_stack_transition(leaf, pop_symbol, push_string) ==
    IF Len(leaf.stack) = 0 THEN leaf
    ELSE IF leaf.stack[1] # pop_symbol THEN leaf
    ELSE LET popped == IF Len(leaf.stack) = 1 THEN <<"e">> ELSE Tail(leaf.stack)
             pushed == IF push_string # <<"e">> THEN push_string \o popped ELSE popped
             stripped == IF Len(pushed) > 1 /\ Last(pushed) = "e"
                         THEN SubSeq(pushed, 1, Len(pushed) - 1) ELSE pushed
         IN  [leaf EXCEPT !.stack = stripped]

\* split_leaf giving the children the depth of the leaf
split_leaf_same_depth(leaf, letter, conjuncts) ==
    IF leaf.stack = <<"e">> THEN NoneStructure
    ELSE IF letter # "e" /\ letter # leaf.remaining_input[1] THEN NoneStructure
    ELSE LET internal_stack == IF Len(leaf.stack) = 1 THEN <<"e">> ELSE Tail(leaf.stack)
             child_input == consume(letter, leaf.remaining_input)
         IN  Tree(internal_stack,
                  [i \in 1..Len(conjuncts) |->
                      Leaf(conjuncts[i][2], conjuncts[i][1], child_input,
                           internal_stack, leaf.depth)])

\* Leaf.split_leaf
split_leaf(leaf, letter, conjuncts) ==
    IF leaf.stack = <<"e">> THEN NoneStructure
    ELSE IF letter # "e" /\ letter # leaf.remaining_input[1] THEN NoneStructure
    ELSE LET internal_stack == IF Len(leaf.stack) = 1 THEN <<"e">> ELSE Tail(leaf.stack)
             child_input == consume(letter, leaf.remaining_input)
         IN  Tree(internal_stack,
                  [i \in 1..Len(conjuncts) |->
                      Leaf(conjuncts[i][2], conjuncts[i][1], child_input,
                           internal_stack, leaf.depth + 1)])

\* Leaf.run_leaf_transition
run_leaf_transition(leaf, letter, pop_symbol, conjuncts) ==
    IF Len(conjuncts) > 1 THEN split_leaf(leaf, letter, conjuncts)
    ELSE LET next_state == conjuncts[1][1]
             push_string == conjuncts[1][2]
             moved == [leaf EXCEPT !.state = next_state,
                                   !.remaining_input = consume(letter, leaf.remaining_input)]
         IN  leaf_stack_transition(moved, pop_symbol, push_string)

\* Leaf.find_leaf_for_transition and Tree.find_leaf_for_transition
RECURSIVE find_leaf_for_transition(_, _, _, _)
find_leaf_for_transition(s, leaf, letter, conjuncts) ==
    IF s.kind = "Leaf"
    THEN run_leaf_transition(s, letter, s.stack[1], conjuncts)
    ELSE Tree(s.stack,
              [i \in 1..Len(s.children) |->
                  LET child == s.children[i]
                  IN  IF StructureEq(child, leaf)
                      THEN run_leaf_transition(child, letter, child.stack[1], conjuncts)
                      ELSE IF child.kind = "Leaf" THEN child
                      ELSE find_leaf_for_transition(child, leaf, letter, conjuncts)])

\* the test of the children without the comparison of the remaining input
all_synchronised_any_input(s) ==
    /\ s.children[1].kind = "Leaf"
    /\ has_empty_stack(s.children[1])
    /\ \A i \in 2..Len(s.children) :
          /\ s.children[i].kind = "Leaf"
          /\ has_empty_stack(s.children[i])
          /\ s.children[i].state = s.children[1].state

\* the children of a tree are synchronised (lines 318-324)
all_synchronised(s) ==
    /\ s.children[1].kind = "Leaf"
    /\ has_empty_stack(s.children[1])
    /\ \A i \in 2..Len(s.children) :
          /\ s.children[i].kind = "Leaf"
          /\ has_empty_stack(s.children[i])
          /\ s.children[i].remaining_input = s.children[1].remaining_input
          /\ s.children[i].state = s.children[1].state

\* synchronise looking at the children of the root only
synchronise_root_only(s) ==
    IF s.kind = "Leaf" THEN s
    ELSE IF all_synchronised(s)
    THEN Leaf(s.stack, s.children[1].state, s.children[1].remaining_input, <<>>, 0)
    ELSE s

\* Leaf.synchronise and Tree.synchronise
RECURSIVE synchronise(_)
synchronise(s) ==
    IF s.kind = "Leaf" THEN s
    ELSE IF all_synchronised(s)
    THEN Leaf(s.stack, s.children[1].state, s.children[1].remaining_input, <<>>, 0)
    ELSE [s EXCEPT !.children =
            [i \in 1..Len(s.children) |->
                IF s.children[i].kind = "Tree" THEN synchronise(s.children[i])
                ELSE s.children[i]]]

-----------------------------------------------------------------------------
(* Computation.py: the Computation object and its methods *)

\* a transition as the dictionary holds it: (letter, conjuncts)
Transition(letter, conjuncts) == [letter |-> letter, conjuncts |-> conjuncts]

\* the entry update_transition_dict builds for a leaf (lines 108-120)
dict_entry(leaf) ==
    LET table == sapda.transitions[leaf.state][leaf.stack[1]]
        first == leaf.remaining_input[1]
        reading == IF first \in DOMAIN table
                   THEN [i \in 1..Len(table[first]) |-> Transition(first, table[first][i])]
                   ELSE <<>>
        silent == IF first # "e" /\ "e" \in DOMAIN table
                  THEN [i \in 1..Len(table["e"]) |-> Transition("e", table["e"][i])]
                  ELSE <<>>
    IN  reading \o silent

\* Computation.update_transition_dict: the dictionary after the call
update_transition_dict(transition_dict, configuration) ==
    LET active == get_active_branches(configuration)
        fresh == {i \in 1..Len(active) : get_dict_key(active[i]) \notin DOMAIN transition_dict}
        keys == {get_dict_key(active[i]) : i \in fresh}
        leaf_of(k) == active[CHOOSE i \in fresh : get_dict_key(active[i]) = k]
    IN  [k \in DOMAIN transition_dict \cup keys |->
            IF k \in DOMAIN transition_dict THEN transition_dict[k]
            ELSE dict_entry(leaf_of(k))]

\* Computation.__init__ with configuration = None: the initial Computation
initial_leaf == Leaf(<<sapda.initial_stack_symbol>>, sapda.initial_state, input_string, <<>>, 0)

NewComputation(computation, configuration, transition_dict, is_leaf) ==
    [computation |-> computation, configuration |-> configuration,
     transition_dict |-> update_transition_dict(transition_dict, configuration),
     is_leaf |-> is_leaf]

InitialComputation == NewComputation(<<initial_leaf>>, initial_leaf, <<>>, TRUE)

\* Computation.update
update(c, new_config) ==
    [computation |-> Append(c.computation, new_config),
     configuration |-> new_config,
     transition_dict |-> update_transition_dict(c.transition_dict, new_config),
     is_leaf |-> (new_config.kind = "Leaf")]

\* Computation.synchronise_loop
RECURSIVE synchronise_loop(_)
synchronise_loop(c) ==
    LET new_config == synchronise(c.configuration)
    IN  IF ~StructureEq(new_config, c.configuration)
        THEN synchronise_loop(update(c, new_config))
        ELSE c

\* is_accepting_config without the test of the stack
is_accepting_config_any_stack(c) ==
    /\ c.is_leaf
    /\ c.configuration.remaining_input = <<"e">>

\* Computation.is_accepting_config
is_accepting_config(c) ==
    /\ c.is_leaf
    /\ c.configuration.remaining_input = <<"e">>
    /\ has_empty_stack(c.configuration)

\* Computation.is_rejecting_config without the depth test of line 85
is_rejecting_config_any_depth(c) ==
    IF is_accepting_config(c) THEN FALSE
    ELSE IF Len(get_active_branches(c.configuration)) = 0 THEN TRUE
    ELSE IF \E k \in DOMAIN c.transition_dict : Len(c.transition_dict[k]) = 0 THEN TRUE
    ELSE \E i \in 1..Len(get_all_leaves(c.configuration)) :
            LET leaf == get_all_leaves(c.configuration)[i]
            IN  ~(has_valid_transition(leaf) \/ has_empty_stack(leaf))

\* Computation.is_rejecting_config
is_rejecting_config(c) ==
    IF is_accepting_config(c) THEN FALSE
    ELSE IF Len(get_active_branches(c.configuration)) = 0 THEN TRUE
    ELSE IF get_tree_depth(c.configuration) > Len(input_string) THEN TRUE
    ELSE IF \E k \in DOMAIN c.transition_dict : Len(c.transition_dict[k]) = 0 THEN TRUE
    ELSE \E i \in 1..Len(get_all_leaves(c.configuration)) :
            LET leaf == get_all_leaves(c.configuration)[i]
            IN  ~(has_valid_transition(leaf) \/ has_empty_stack(leaf))

branch_length(leaf) == Len(leaf.remaining_input) + Len(leaf.stack)

\* branch_transitions.sort(key=...): a stable sort by branch_length (line 134)
RECURSIVE insert_sorted(_, _)
insert_sorted(sorted, x) ==
    IF sorted = <<>> THEN <<x>>
    ELSE IF branch_length(Last(sorted)) <= branch_length(x) THEN Append(sorted, x)
    ELSE Append(insert_sorted(SubSeq(sorted, 1, Len(sorted) - 1), x), Last(sorted))

RECURSIVE stable_sort(_)
stable_sort(s) ==
    IF s = <<>> THEN <<>>
    ELSE insert_sorted(stable_sort(SubSeq(s, 1, Len(s) - 1)), Last(s))

\* Computation.order_active_branches
order_active_branches(c) ==
    LET in_dict(leaf) == get_dict_key(leaf) \in DOMAIN c.transition_dict
    IN  stable_sort(SelectSeq(get_active_branches(c.configuration), in_dict))

\* Computation.is_deterministic_transition
is_deterministic_transition(c) ==
    \E i \in 1..Len(get_active_branches(c.configuration)) :
        LET k == get_dict_key(get_active_branches(c.configuration)[i])
        IN  k \in DOMAIN c.transition_dict /\ Len(c.transition_dict[k]) = 1

\* the conjuncts of an epsilon-transition left as delta lists them
order_conjuncts_as_listed(leaf, conjuncts) == conjuncts

\* the conjuncts of an epsilon-transition with the self-loops last (lines 168-175)
order_conjuncts(leaf, conjuncts) ==
    LET loops(cj) == cj[1] = leaf.state /\ cj[2][1] = leaf.stack[1]
        others(cj) == ~loops(cj)
    IN  SelectSeq(conjuncts, others) \o SelectSeq(conjuncts, loops)

\* Computation.order_transitions
order_transitions(c, leaf) ==
    LET entry == c.transition_dict[get_dict_key(leaf)]
        simple(t) == t.letter # "e" \/ Len(t.conjuncts) = 1
        split(t) == t.letter = "e" /\ Len(t.conjuncts) > 1
        splits == SelectSeq(entry, split)
    IN  SelectSeq(entry, simple) \o
        [i \in 1..Len(splits) |->
            Transition(splits[i].letter, order_conjuncts(leaf, splits[i].conjuncts))]

-----------------------------------------------------------------------------
(* What a call returns *)

Result(kind, trace, cause) == [kind |-> kind, trace |-> trace, cause |-> cause]

Running == Result("running", <<>>, "")
\* get_computation_list(): one rendered step per configuration of the computation
ReturnTrace(c) == Result("trace", c.computation, "")
\* return []
ReturnEmpty == Result("empty", <<>>, "")
\* return ['timeout'], with the exception run_machine caught
ReturnTimeout(exception) == Result("timeout", <<>>, exception)
\* the call ended without a return statement
ReturnNone == Result("None", <<>>, "")
\* backtrack's diagnostic string
ReturnString == Result("string", <<>>, "Word rejected (tried to backtrack with empty path)")
\* an exception nothing catches
Raise(exception) == Result("raise", <<>>, exception)

\* no method is called on its own
NoCall == [op |-> "none"]

NoComputation ==
    [computation |-> <<>>, configuration |-> NoneStructure,
     transition_dict |-> <<>>, is_leaf |-> FALSE]

-----------------------------------------------------------------------------
(* The inputs the automata are run on *)

Scenarios1 == {<<"a", "a", "b", "b", "c", "c">>, <<"a", "a", "b", "b", "b", "c", "c">>}

ForeignLetters == {"e", "x"}

\* words with at least one letter outside the input alphabet
BadWords(a) ==
    {w \in UNION {WordsOfLen(a.input_alphabet \cup ForeignLetters, k) : k \in 1..MaxBadLen} :
        /\ w # <<"e">>
        /\ \E i \in DOMAIN w : w[i] \notin a.input_alphabet}

Inputs(a) ==
    BadWords(a) \cup
    CASE a.name = "sapda1" -> Words(a.input_alphabet, MaxLen1) \cup Scenarios1
      [] a.name = "sapda4" -> Words(a.input_alphabet, MaxK)
      [] OTHER -> Words(a.input_alphabet, MaxLenSmall)

-----------------------------------------------------------------------------
(* The state machine *)

Init ==
    /\ \E a \in Automata : \E s \in Loaded(a) : \E w \in Inputs(a) :
          /\ sapda = s
          /\ input_string = w
    /\ pc = "run_machine"
    /\ caller = "run_machine"
    /\ cur = InitialComputation
    /\ branches = <<>>
    /\ bi = 0
    /\ verdict = "none"
    /\ dself = NoComputation
    /\ depth = 0
    /\ path = <<>>
    /\ li = 0
    /\ ti = 0
    /\ result = Running
    /\ root = NoComputation
    /\ paths = <<>>
    /\ bfs_result = Running
    /\ clock = 0
    /\ nbacktrack = 0
    /\ call = NoCall
    /\ ret = NoneStructure

\* the call returns r: run_machine's value, or bfs's when bfs is running
Return(r) ==
    /\ pc' = "done"
    /\ IF caller = "bfs"
       THEN bfs_result' = r /\ UNCHANGED result
       ELSE result' = r /\ UNCHANGED bfs_result

\* the time budget of dfs and bfs (func_set_timeout) is not exhausted
InBudget == caller = "run_machine" \/ clock < MaxClock

\* the drive run_machine calls itself has no budget: the list self.computation
\* of that drive is kept up to MaxTrace configurations, the drive goes on
recorded(c) ==
    IF caller = "run_machine" /\ Len(c.computation) > MaxTrace
    THEN [c EXCEPT !.computation = SubSeq(@, 1, MaxTrace)]
    ELSE c
Tick == clock' = IF caller = "run_machine" THEN clock ELSE clock + 1

\* the check of the input comparing only its first letter with 'e'
rejected_unless_leading_e ==
    \E i \in DOMAIN input_string :
        input_string[1] # "e" /\ input_string[i] \notin sapda.input_alphabet

\* the input has a letter outside the input alphabet (lines 218-220)
rejected_up_front ==
    \E i \in DOMAIN input_string :
        input_string # <<"e">> /\ input_string[i] \notin sapda.input_alphabet

\* run_machine, lines 218-222: the check of the input, then the call of the drive
RunMachine ==
    /\ pc = "run_machine"
    /\ IF rejected_up_front
       THEN Return(ReturnEmpty)
       ELSE pc' = "drive" /\ UNCHANGED <<result, bfs_result>>
    /\ UNCHANGED <<call, ret, sapda, input_string, caller, cur, branches, bi, verdict, dself,
                   depth, path, li, ti, root, paths, clock, nbacktrack>>

\* run_deterministic_transitions, line 187
DriveEnter ==
    /\ pc = "drive"
    /\ InBudget
    /\ cur' = recorded(synchronise_loop(cur))
    /\ pc' = "drive_while"
    /\ Tick
    /\ UNCHANGED <<call, ret, sapda, input_string, caller, branches, bi, verdict, dself,
                   depth, path, li, ti, result, root, paths, bfs_result, nbacktrack>>

\* the (Accept, Reject) pair of lines 209-213 and 194-199
verdict_of(c) ==
    IF is_accepting_config(c) THEN "accept"
    ELSE IF is_rejecting_config(c) THEN "reject"
    ELSE "indeterminate"

\* run_deterministic_transitions, lines 188-201 and 208-213: the test of the
\* while loop, and either the return or the start of the for loop
DriveWhile ==
    /\ pc = "drive_while"
    /\ InBudget
    /\ IF ~is_deterministic_transition(cur)
       THEN /\ verdict' = verdict_of(cur)
            /\ pc' = "drive_ret"
            /\ UNCHANGED <<cur, branches, bi>>
       ELSE LET c == recorded(synchronise_loop(cur))
            IN  /\ cur' = c
                /\ IF verdict_of(c) # "indeterminate"
                   THEN /\ verdict' = verdict_of(c)
                        /\ pc' = "drive_ret"
                        /\ UNCHANGED <<branches, bi>>
                   ELSE /\ branches' = get_active_branches(c.configuration)
                        /\ bi' = 1
                        /\ pc' = "drive_for"
                        /\ UNCHANGED verdict
    /\ Tick
    /\ UNCHANGED <<call, ret, sapda, input_string, caller, dself, depth, path, li, ti,
                   result, root, paths, bfs_result, nbacktrack>>

\* the leaf of the for loop has a single transition in the dictionary (line 202)
forced(c, leaf) ==
    /\ get_dict_key(leaf) \in DOMAIN c.transition_dict
    /\ Len(c.transition_dict[get_dict_key(leaf)]) = 1

\* run_deterministic_transitions, lines 201-206: one iteration of the for loop
DriveFor ==
    /\ pc = "drive_for"
    /\ InBudget
    /\ LET leaf == branches[bi]
           t == cur.transition_dict[get_dict_key(leaf)][1]
           new_config == find_leaf_for_transition(cur.configuration, leaf, t.letter, t.conjuncts)
       IN  IF forced(cur, leaf) /\ new_config.kind = "None"
           THEN \* update(None): get_active_branches of None
                /\ Return(Raise("AttributeError"))
                /\ UNCHANGED <<cur, bi>>
           ELSE /\ cur' = IF forced(cur, leaf)
                          THEN recorded(synchronise_loop(update(cur, new_config)))
                          ELSE cur
                /\ bi' = bi + 1
                /\ pc' = IF bi = Len(branches) THEN "drive_while" ELSE "drive_for"
                /\ UNCHANGED <<result, bfs_result>>
    /\ Tick
    /\ UNCHANGED <<call, ret, sapda, input_string, caller, branches, verdict, dself, depth, path,
                   li, ti, root, paths, nbacktrack>>

\* run_machine, lines 222-232: the verdict of the first drive
RunMachineVerdict ==
    /\ pc = "drive_ret"
    /\ caller = "run_machine"
    /\ IF verdict = "accept"
       THEN Return(ReturnTrace(cur)) /\ UNCHANGED <<caller, dself, li, ti, root>>
       ELSE IF verdict = "reject"
       THEN Return(ReturnEmpty) /\ UNCHANGED <<caller, dself, li, ti, root>>
       ELSE /\ pc' = "dfs"
            /\ caller' = "dfs"
            /\ dself' = cur
            /\ root' = cur
            /\ li' = 1
            /\ ti' = 1
            /\ UNCHANGED <<result, bfs_result>>
    /\ UNCHANGED <<call, ret, sapda, input_string, cur, branches, bi, verdict, depth, path,
                   paths, clock, nbacktrack>>

\* the loops over leaves and transitions (dfs lines 245-246, bfs lines 291-293):
\* the first position at or after (l, t) that names a transition, <<0, 0>> if none
RECURSIVE loop_position(_, _, _)
loop_position(c, l, t) ==
    IF l > Len(order_active_branches(c)) THEN <<0, 0>>
    ELSE IF t <= Len(order_transitions(c, order_active_branches(c)[l])) THEN <<l, t>>
    ELSE loop_position(c, l + 1, 1)

loop_leaf(c, l) == order_active_branches(c)[l]
loop_transition(c, l, t) == order_transitions(c, loop_leaf(c, l))[t]

\* dfs, line 252: the dictionary of the copy, with the leaf's entry restricted
restrict(c, leaf, t) ==
    [c EXCEPT !.transition_dict[get_dict_key(leaf)] = <<t>>]

\* dfs without the deepcopy of line 249: the entry of self itself is restricted
DfsTry_in_place ==
    /\ pc = "dfs"
    /\ clock < MaxClock
    /\ loop_position(dself, li, ti) # <<0, 0>>
    /\ LET pos == loop_position(dself, li, ti)
       IN  /\ li' = pos[1]
           /\ ti' = pos[2]
           /\ cur' = restrict(dself, loop_leaf(dself, pos[1]),
                              loop_transition(dself, pos[1], pos[2]))
           /\ dself' = cur'
    /\ pc' = "drive"
    /\ clock' = clock + 1
    /\ UNCHANGED <<call, ret, sapda, input_string, caller, branches, bi, verdict, depth,
                   path, result, root, paths, bfs_result, nbacktrack>>

\* dfs, lines 245-253: the next candidate is cloned, restricted and driven
DfsTry ==
    /\ pc = "dfs"
    /\ clock < MaxClock
    /\ loop_position(dself, li, ti) # <<0, 0>>
    /\ LET pos == loop_position(dself, li, ti)
       IN  /\ li' = pos[1]
           /\ ti' = pos[2]
           /\ cur' = restrict(dself, loop_leaf(dself, pos[1]),
                              loop_transition(dself, pos[1], pos[2]))
    /\ pc' = "drive"
    /\ clock' = clock + 1
    /\ UNCHANGED <<call, ret, sapda, input_string, caller, branches, bi, verdict, dself, depth,
                   path, result, root, paths, bfs_result, nbacktrack>>

\* dfs: both loops end and the function ends without a return statement
DfsFallOff ==
    /\ pc = "dfs"
    /\ clock < MaxClock
    /\ loop_position(dself, li, ti) = <<0, 0>>
    /\ Return(ReturnNone)
    /\ UNCHANGED <<call, ret, sapda, input_string, caller, cur, branches, bi, verdict, dself,
                   depth, path, li, ti, root, paths, clock, nbacktrack>>

\* a backtrack frame (line 268)
Frame(leaf, t, c) ==
    [leaf |-> leaf, letter |-> t.letter, conjuncts |-> t.conjuncts,
     configuration |-> c.configuration, computation |-> c.computation,
     transition_dict |-> c.transition_dict, is_leaf |-> c.is_leaf]

\* dfs, lines 255-269: what dfs does with the verdict of the candidate
DfsVerdict ==
    /\ pc = "drive_ret"
    /\ caller = "dfs"
    /\ clock < MaxClock
    /\ LET leaf == loop_leaf(dself, li)
           t == loop_transition(dself, li, ti)
       IN  IF verdict = "accept"
           THEN /\ Return(ReturnTrace(cur))
                /\ UNCHANGED <<dself, depth, path, li, ti>>
           ELSE IF verdict = "reject"
           THEN IF ti = Len(order_transitions(dself, leaf))
                THEN IF depth = 0
                     THEN /\ Return(ReturnEmpty)
                          /\ UNCHANGED <<dself, depth, path, li, ti>>
                     ELSE /\ pc' = "backtrack"
                          /\ UNCHANGED <<dself, depth, path, li, ti, result, bfs_result>>
                ELSE /\ pc' = "dfs"
                     /\ ti' = ti + 1
                     /\ UNCHANGED <<dself, depth, path, li, result, bfs_result>>
           ELSE /\ path' = Append(path, Frame(leaf, t, dself))
                /\ dself' = cur
                /\ depth' = depth + 1
                /\ li' = 1
                /\ ti' = 1
                /\ pc' = "dfs"
                /\ UNCHANGED <<result, bfs_result>>
    /\ clock' = clock + 1
    /\ UNCHANGED <<call, ret, sapda, input_string, caller, cur, branches, bi, verdict, root,
                   paths, nbacktrack>>

\* list.remove(x): the list without the first occurrence of x
RECURSIVE remove(_, _)
remove(list, x) ==
    IF list = <<>> THEN <<>>
    ELSE IF Head(list) = x THEN Tail(list)
    ELSE <<Head(list)>> \o remove(Tail(list), x)

\* backtrack, lines 272-278
Backtrack ==
    /\ pc = "backtrack"
    /\ clock < MaxClock
    /\ IF path = <<>>
       THEN /\ Return(ReturnString)
            /\ UNCHANGED <<dself, depth, path, li, ti, nbacktrack>>
       ELSE LET frame == Last(path)
                last_self == NewComputation(frame.computation, frame.configuration,
                                            frame.transition_dict, frame.is_leaf)
                key == get_dict_key(frame.leaf)
                tried == Transition(frame.letter, frame.conjuncts)
            IN  IF key \notin DOMAIN last_self.transition_dict
                THEN /\ Return(Raise("KeyError"))
                     /\ UNCHANGED <<dself, depth, path, li, ti, nbacktrack>>
                ELSE IF ~InSeq(tried, last_self.transition_dict[key])
                THEN \* list.remove raises ValueError, which run_machine catches (line 233)
                     /\ Return(ReturnTimeout("ValueError"))
                     /\ UNCHANGED <<dself, depth, path, li, ti, nbacktrack>>
                ELSE /\ dself' = [last_self EXCEPT !.transition_dict[key] = remove(@, tried)]
                     /\ path' = SubSeq(path, 1, Len(path) - 1)
                     /\ depth' = depth - 1
                     /\ li' = 1
                     /\ ti' = 1
                     /\ nbacktrack' = nbacktrack + 1
                     /\ pc' = "dfs"
                     /\ UNCHANGED <<result, bfs_result>>
    /\ clock' = clock + 1
    /\ UNCHANGED <<call, ret, sapda, input_string, caller, cur, branches, bi, verdict, root, paths>>

\* dfs runs out of its 20 seconds: FunctionTimedOut, caught by run_machine (line 233)
DfsTimeout ==
    /\ caller = "dfs"
    /\ pc # "done"
    /\ clock >= MaxClock
    /\ Return(ReturnTimeout("FunctionTimedOut"))
    /\ UNCHANGED <<call, ret, sapda, input_string, caller, cur, branches, bi, verdict, dself,
                   depth, path, li, ti, root, paths, clock, nbacktrack>>

-----------------------------------------------------------------------------
(* bfs, started on the Computation the first drive left indeterminate *)

\* bfs, lines 285-286
BfsStart ==
    /\ pc = "done"
    /\ caller = "dfs"
    /\ paths' = <<root>>
    /\ caller' = "bfs"
    /\ pc' = "bfs_get"
    /\ clock' = 0
    /\ UNCHANGED <<call, ret, sapda, input_string, cur, branches, bi, verdict, dself, depth,
                   path, li, ti, result, root, bfs_result, nbacktrack>>

\* bfs, lines 288-290 and 305
BfsGet ==
    /\ pc = "bfs_get"
    /\ clock < MaxClock
    /\ IF paths = <<>>
       THEN /\ Return(ReturnEmpty)
            /\ UNCHANGED <<dself, paths, li, ti>>
       ELSE /\ dself' = Head(paths)
            /\ paths' = Tail(paths)
            /\ li' = 1
            /\ ti' = 1
            /\ pc' = "bfs_loop"
            /\ UNCHANGED <<result, bfs_result>>
    /\ clock' = clock + 1
    /\ UNCHANGED <<call, ret, sapda, input_string, caller, cur, branches, bi, verdict, depth,
                   path, root, nbacktrack>>

\* bfs, lines 291-297: the next candidate is cloned, stepped and driven
BfsTry ==
    /\ pc = "bfs_loop"
    /\ clock < MaxClock
    /\ loop_position(dself, li, ti) # <<0, 0>>
    /\ LET pos == loop_position(dself, li, ti)
           t == loop_transition(dself, pos[1], pos[2])
           new_config == find_leaf_for_transition(dself.configuration,
                             loop_leaf(dself, pos[1]), t.letter, t.conjuncts)
       IN  /\ li' = pos[1]
           /\ ti' = pos[2]
           /\ cur' = update(dself, new_config)
    /\ pc' = "drive"
    /\ clock' = clock + 1
    /\ UNCHANGED <<call, ret, sapda, input_string, caller, branches, bi, verdict, dself, depth,
                   path, result, root, paths, bfs_result, nbacktrack>>

\* bfs: the loops over the leaves and transitions of current_self end
BfsExhausted ==
    /\ pc = "bfs_loop"
    /\ clock < MaxClock
    /\ loop_position(dself, li, ti) = <<0, 0>>
    /\ pc' = "bfs_get"
    /\ clock' = clock + 1
    /\ UNCHANGED <<call, ret, sapda, input_string, caller, cur, branches, bi, verdict, dself, depth,
                   path, li, ti, result, root, paths, bfs_result, nbacktrack>>

\* bfs, lines 298-303
BfsVerdict ==
    /\ pc = "drive_ret"
    /\ caller = "bfs"
    /\ clock < MaxClock
    /\ IF verdict = "accept"
       THEN /\ Return(ReturnTrace(cur))
            /\ UNCHANGED <<paths, ti>>
       ELSE /\ paths' = IF verdict = "reject" THEN paths ELSE Append(paths, cur)
            /\ ti' = ti + 1
            /\ pc' = "bfs_loop"
            /\ UNCHANGED <<result, bfs_result>>
    /\ clock' = clock + 1
    /\ UNCHANGED <<call, ret, sapda, input_string, caller, cur, branches, bi, verdict, dself,
                   depth, path, li, root, nbacktrack>>

\* bfs runs out of its 20 seconds: FunctionTimedOut, which bfs's caller sees
BfsTimeout ==
    /\ caller = "bfs"
    /\ pc # "done"
    /\ clock >= MaxClock
    /\ Return(Raise("FunctionTimedOut"))
    /\ UNCHANGED <<call, ret, sapda, input_string, caller, cur, branches, bi, verdict, dself,
                   depth, path, li, ti, root, paths, clock, nbacktrack>>

Next ==
    \/ RunMachine
    \/ DriveEnter
    \/ DriveWhile
    \/ DriveFor
    \/ RunMachineVerdict
    \/ DfsTry
    \/ DfsFallOff
    \/ DfsVerdict
    \/ Backtrack
    \/ DfsTimeout
    \/ BfsStart
    \/ BfsGet
    \/ BfsTry
    \/ BfsExhausted
    \/ BfsVerdict
    \/ BfsTimeout

Spec == Init /\ [][Next]_vars

-----------------------------------------------------------------------------
(* The SAPDA semantics the contract claims refer to.  These definitions are  *)
(* not the engine: they state what "the SAPDA accepts the input" means, from *)
(* delta alone (one transition of one leaf, or one synchronisation of        *)
(* siblings, per step), and the claims compare the engine's answer with it.  *)

SemLeaf(state, remaining_input, stack) == Leaf(stack, state, remaining_input, <<>>, 0)

SemAccepting(c) == c.kind = "Leaf" /\ c.remaining_input = <<"e">> /\ c.stack = <<"e">>

SemStack(symbols) == IF symbols = <<>> THEN <<"e">> ELSE symbols
SemSymbols(stack) == IF stack = <<"e">> THEN <<>> ELSE stack

\* the letters a leaf may read: its next letter, and the empty word
SemEnabledLetters(leaf) ==
    IF leaf.stack = <<"e">> \/ leaf.state \notin DOMAIN sapda.transitions THEN {}
    ELSE IF leaf.stack[1] \notin DOMAIN sapda.transitions[leaf.state] THEN {}
    ELSE {l \in DOMAIN sapda.transitions[leaf.state][leaf.stack[1]] :
             l = "e" \/ (leaf.remaining_input # <<"e">> /\ l = leaf.remaining_input[1])}

SemRest(letter, remaining_input) ==
    IF letter = "e" THEN remaining_input
    ELSE SemStack(Tail(remaining_input))

\* the result of one alternative (a conjunction) of delta on a leaf
SemApply(leaf, letter, conjuncts) ==
    LET below == Tail(leaf.stack)
        rest == SemRest(letter, leaf.remaining_input)
    IN  IF Len(conjuncts) = 1
        THEN SemLeaf(conjuncts[1][1], rest,
                     SemStack(SemSymbols(conjuncts[1][2]) \o below))
        ELSE Tree(SemStack(below),
                  [i \in 1..Len(conjuncts) |->
                      SemLeaf(conjuncts[i][1], rest, conjuncts[i][2])])

SemLeafSteps(leaf) ==
    UNION {{SemApply(leaf, l, cj) :
               cj \in Range(sapda.transitions[leaf.state][leaf.stack[1]][l])} :
           l \in SemEnabledLetters(leaf)}

SemSynchronised(c) ==
    /\ \A i \in 1..Len(c.children) :
          c.children[i].kind = "Leaf" /\ c.children[i].stack = <<"e">>
    /\ \A i \in 1..Len(c.children) :
          /\ c.children[i].state = c.children[1].state
          /\ c.children[i].remaining_input = c.children[1].remaining_input

\* the configurations one step away
RECURSIVE SemSteps(_)
SemSteps(c) ==
    IF c.kind = "Leaf" THEN SemLeafSteps(c)
    ELSE (IF SemSynchronised(c)
          THEN {SemLeaf(c.children[1].state, c.children[1].remaining_input, c.stack)}
          ELSE {})
         \cup UNION {{[c EXCEPT !.children[i] = n] : n \in SemSteps(c.children[i])} :
                     i \in 1..Len(c.children)}

RECURSIVE SemSize(_)
SemSize(c) ==
    IF c.kind = "Leaf" THEN 1 + Len(c.stack)
    ELSE 1 + Len(c.stack) + SemSize(c.children[1]) +
         (IF Len(c.children) = 1 THEN 0
          ELSE SemSize([c EXCEPT !.children = Tail(c.children), !.stack = <<>>]) - 1)

\* breadth-first search of the configurations of tree depth at most d and
\* size at most MaxSemSize: "yes" when an accepting one is reached, "no" when
\* none is and no configuration was left out for its size, else "unknown"
RECURSIVE SemSearch(_, _, _, _)
SemSearch(frontier, seen, d, cut) ==
    IF \E c \in frontier : SemAccepting(c) THEN "yes"
    ELSE LET next == {c \in UNION {SemSteps(f) : f \in frontier} :
                         c \notin seen /\ get_tree_depth(c) <= d}
             kept == {c \in next : SemSize(c) <= MaxSemSize}
         IN  IF kept = {} THEN (IF cut \/ kept # next THEN "unknown" ELSE "no")
             ELSE SemSearch(kept, seen \cup kept, d, cut \/ kept # next)

SemStart == SemLeaf(sapda.initial_state, input_string, <<sapda.initial_stack_symbol>>)

\* the input is a word over the input alphabet ('e' alone is the empty word)
IsWord ==
    input_string = <<"e">> \/
    \A i \in 1..Len(input_string) : input_string[i] \in sapda.input_alphabet

\* the number of letters of the input
InputLength == IF input_string = <<"e">> THEN 0 ELSE Len(input_string)

\* does the SAPDA accept the input, by any computation
SemAccepts ==
    IF IsWord THEN SemSearch({SemStart}, {SemStart}, MaxSemSize, FALSE) ELSE "no"

\* does it accept by a computation of tree depth at most the length of the input
SemAcceptsShallow ==
    IF IsWord THEN SemSearch({SemStart}, {SemStart}, InputLength, FALSE) ELSE "no"

\* run_machine was cut off by the time budget or the recursion limit
CutOff ==
    result.kind = "timeout" /\ result.cause \in {"FunctionTimedOut", "RecursionError"}

BfsCutOff ==
    bfs_result.kind = "raise" /\ bfs_result.cause \in {"FunctionTimedOut", "RecursionError"}

Returned == pc = "done" /\ result.kind # "running"

-----------------------------------------------------------------------------
(* The acceptance contract of run_machine.                                   *)

\* C1 (soundness): whenever run_machine returns a non-empty trace, the SAPDA
\* accepts the input.
Soundness ==
    (Returned /\ result.kind = "trace") => SemAccepts # "no"

\* C2 (completeness): whenever the SAPDA has an accepting computation whose
\* configurations have tree depth at most the length of the input, run_machine
\* returns a non-empty trace, unless the time budget or the recursion limit
\* cut it off.
Completeness ==
    (Returned /\ result.kind # "trace" /\ ~CutOff) => SemAcceptsShallow # "yes"

\* C3: the first configuration of an accepted trace is the initial
\* configuration (q0, w, Z0) and its last one is a leaf with no remaining
\* input and an empty stack, also when the search backtracked on the way.
TraceEnds ==
    (Returned /\ result.kind = "trace") =>
        /\ Len(result.trace) >= 1
        /\ Head(result.trace) =
              Leaf(<<sapda.initial_stack_symbol>>, sapda.initial_state,
                   input_string, <<>>, 0)
        /\ Last(result.trace).kind = "Leaf"
        /\ Last(result.trace).remaining_input = <<"e">>
        /\ Last(result.trace).stack = <<"e">>

\* an accepted trace that was found after at least one backtrack
TraceAfterBacktrack ==
    Returned /\ result.kind = "trace" /\ nbacktrack > 0 /\ Len(result.trace) > 1

\* C4: run_machine returns exactly a non-empty trace, the empty list or
\* ['timeout']: dfs always ends in a return statement and backtrack's
\* diagnostic string is never the result.
ReturnForms ==
    pc = "done" =>
        \/ result.kind = "trace" /\ Len(result.trace) >= 1
        \/ result.kind = "empty"
        \/ result.kind = "timeout"

\* C5: run_machine returns ['timeout'] only when the time budget or the
\* recursion limit was exhausted, never for another exception.
TimeoutOnlyOnBudget ==
    (pc = "done" /\ result.kind = "timeout") => CutOff

\* the input is not the literal 'e' and has a letter outside the alphabet
HasForeignLetter ==
    /\ input_string # <<"e">>
    /\ \E i \in 1..Len(input_string) : input_string[i] \notin sapda.input_alphabet

\* C6: an input with a letter outside the input alphabet ('e' included) that
\* is not the literal 'e' is rejected up front: no transition is applied, the
\* trace holds only the initial configuration, neither the drive nor the
\* search is entered, and the result is the empty list.
RejectedUpFront ==
    HasForeignLetter =>
        /\ pc \in {"run_machine", "done"}
        /\ caller = "run_machine"
        /\ cur.computation =
              <<Leaf(<<sapda.initial_stack_symbol>>, sapda.initial_state,
                     input_string, <<>>, 0)>>
        /\ path = <<>> /\ nbacktrack = 0
        /\ pc = "done" => result = ReturnEmpty

\* an input that mixes an alphabet letter with 'e' has been rejected
RejectedWithE ==
    /\ pc = "done" /\ result = ReturnEmpty
    /\ HasForeignLetter
    /\ \E i \in 1..Len(input_string) : input_string[i] = "e"
    /\ \E i \in 1..Len(input_string) : input_string[i] \in sapda.input_alphabet

\* the drive is about to apply a letter-labelled transition to a leaf whose
\* remaining input is 'e'
LetterOnEmptyInput ==
    /\ pc = "drive_for"
    /\ forced(cur, branches[bi])
    /\ cur.transition_dict[get_dict_key(branches[bi])][1].letter # "e"
    /\ \/ branches[bi].remaining_input = <<"e">>
       \/ cur.is_leaf /\ cur.configuration.remaining_input = <<"e">>

\* C7: on the input 'e' run_machine returns a non-empty trace exactly when the
\* automaton accepts by epsilon-transitions alone, and no letter-labelled
\* transition is applied to a leaf whose remaining input is 'e'.
EmptyInput ==
    input_string = <<"e">> =>
        /\ ~LetterOnEmptyInput
        /\ (Returned /\ ~CutOff) => (result.kind = "trace" <=> SemAccepts = "yes")

\* a^n b^n c^n with n > 0
InL1(w) ==
    \E n \in 1..Len(w) :
        /\ Len(w) = 3 * n
        /\ \A i \in 1..Len(w) :
              w[i] = IF i <= n THEN "a" ELSE IF i <= 2 * n THEN "b" ELSE "c"

\* C8: on every input over {a,b,c} up to the bounded length, sapda1 returns a
\* non-empty trace exactly on a^n b^n c^n (n > 0) and the empty list otherwise.
Sapda1Language ==
    (sapda.name = "sapda1" /\ pc = "done" /\ ~HasForeignLetter) =>
        IF InL1(input_string)
        THEN result.kind = "trace" /\ Len(result.trace) >= 1
        ELSE result = ReturnEmpty

\* sapda1 has accepted 'aabbcc'
Sapda1AcceptsAabbcc ==
    /\ sapda.name = "sapda1" /\ pc = "done"
    /\ input_string = <<"a", "a", "b", "b", "c", "c">>
    /\ result.kind = "trace"

\* C9: on 0^k sapda4 returns a non-empty trace for k = 1 and k = 4, and the
\* empty list (not ['timeout']) for k = 2 and k = 3.
Sapda4Results ==
    (sapda.name = "sapda4" /\ pc = "done" /\ ~HasForeignLetter
        /\ input_string # <<"e">>) =>
        /\ Len(input_string) \in {1, 4} => result.kind = "trace"
        /\ Len(input_string) \in {2, 3} => result = ReturnEmpty

\* C10: bfs has the contract of dfs: when neither is cut off by the time
\* budget or the recursion limit, bfs returns a non-empty trace exactly when
\* dfs does and the empty list exactly when dfs does.
BfsSameContract ==
    (pc = "done" /\ caller = "bfs" /\ ~CutOff /\ ~BfsCutOff) =>
        /\ bfs_result.kind = "trace" <=> result.kind = "trace"
        /\ bfs_result.kind = "empty" <=> result.kind = "empty"

-----------------------------------------------------------------------------
(* Positions in a configuration, and the single steps of the SAPDA on it.   *)

\* the positions (sequences of child indexes) of the leaves of s
RECURSIVE LeafPaths(_)
LeafPaths(s) ==
    IF s.kind # "Tree" THEN {<<>>}
    ELSE UNION {{<<i>> \o p : p \in LeafPaths(s.children[i])} : i \in 1..Len(s.children)}

\* the positions of the Tree nodes of s
RECURSIVE TreePaths(_)
TreePaths(s) ==
    IF s.kind # "Tree" THEN {}
    ELSE {<<>>} \cup
         UNION {{<<i>> \o p : p \in TreePaths(s.children[i])} : i \in 1..Len(s.children)}

RECURSIVE At(_, _)
At(s, p) == IF p = <<>> THEN s ELSE At(s.children[Head(p)], Tail(p))

RECURSIVE ReplaceAt(_, _, _)
ReplaceAt(s, p, n) ==
    IF p = <<>> THEN n
    ELSE [s EXCEPT !.children[Head(p)] = ReplaceAt(@, Tail(p), n)]

\* the letters delta lets a leaf read: its next letter, or the empty word
EnabledLetters(leaf) ==
    IF ~has_valid_transition(leaf) THEN {}
    ELSE {l \in DOMAIN sapda.transitions[leaf.state][leaf.stack[1]] :
             l = "e" \/ l = leaf.remaining_input[1]}

\* the structures one enabled transition of delta turns a leaf into
DeltaSteps(leaf) ==
    UNION {{run_leaf_transition(leaf, l, leaf.stack[1], cj) :
               cj \in Range(sapda.transitions[leaf.state][leaf.stack[1]][l])} :
           l \in EnabledLetters(leaf)}

\* one transition applied to one leaf of old, and to that leaf only
OneTransition(old) ==
    UNION {{ReplaceAt(old, p, n) : n \in DeltaSteps(At(old, p))} : p \in LeafPaths(old)}

\* the Tree nodes whose children are synchronised
SynchronisedPaths(s) == {p \in TreePaths(s) : all_synchronised(At(s, p))}

Collapsed(t) ==
    Leaf(t.stack, t.children[1].state, t.children[1].remaining_input, <<>>, 0)

\* one group of synchronised siblings of old collapsed
OneCollapse(old) ==
    {ReplaceAt(old, p, Collapsed(At(old, p))) : p \in SynchronisedPaths(old)}

ValidStep(old, new) ==
    /\ new # old
    /\ new \in OneTransition(old) \cup OneCollapse(old)

\* C11 (step validity): in every trace the engine builds, each configuration
\* after the first differs from its predecessor and comes from it by one
\* enabled transition of delta applied to one active leaf only, or by one
\* synchronisation collapse.
StepValidity ==
    \A i \in 2..Len(cur.computation) :
        ValidStep(cur.computation[i - 1], cur.computation[i])

-----------------------------------------------------------------------------
(* The methods of Structure.py and synchronise_loop called on their own, on *)
(* every argument of a bounded set.                                          *)

\* stacks of the leaves a transition is applied to have at most this length
MaxStack == 2
\* their remaining input has at most this length
MaxInput == 2
\* a transition has at most this many conjuncts
MaxConj == 2
\* the trees synchronise is called on have at most this depth
MaxTreeDepth == 2
\* the longest dictionary entry order_transitions is called on
MaxEntry == 3

ArgSymbols == {"A", "B"}
ArgLetters == {"a", "b"}
ArgStacks == {<<"e">>} \cup UNION {WordsOfLen(ArgSymbols, k) : k \in 1..MaxStack}
ArgInputs == Words(ArgLetters, MaxInput)

\* the leaves run_leaf_transition is called on
ArgLeaves ==
    {Leaf(st, "p", w, f[1], f[2]) :
        st \in ArgStacks, w \in ArgInputs, f \in {<<<<>>, 0>>, <<<<"A">>, 1>>}}

ArgConjunct == {"p", "q"} \X {<<"e">>, <<"A">>, <<"B", "A">>}
ArgConjuncts == UNION {WordsOfLen(ArgConjunct, k) : k \in 1..MaxConj}

RunLeafTransitionCalls ==
    {[op |-> "run_leaf_transition", self |-> leaf, letter |-> l, conjuncts |-> cj] :
        leaf \in ArgLeaves, l \in {"e"} \cup ArgLetters, cj \in ArgConjuncts}

\* the children of the trees synchronise is called on
SiblingLeaves ==
    {Leaf(<<"e">>, "p", <<"e">>, <<"e">>, 1), Leaf(<<"e">>, "q", <<"e">>, <<"e">>, 1),
     Leaf(<<"e">>, "p", <<"a">>, <<"e">>, 1), Leaf(<<"A">>, "p", <<"e">>, <<"e">>, 1)}

TreeStacks == {<<"e">>, <<"A">>}

\* trees of two or three leaves
FlatTrees ==
    {Tree(st, ch) : st \in TreeStacks,
                    ch \in WordsOfLen(SiblingLeaves, 2) \cup WordsOfLen(SiblingLeaves, 3)}

\* a leaf, or a tree of two leaves
Shallow ==
    SiblingLeaves \cup
    {Tree(st, ch) : st \in TreeStacks, ch \in WordsOfLen(SiblingLeaves, 2)}

\* structures of depth at most d, with two children at every Tree node
RECURSIVE Nested(_)
Nested(d) ==
    IF d <= 1 THEN Shallow
    ELSE Nested(d - 1) \cup
         {Tree(st, <<x, y>>) : st \in TreeStacks, x \in Nested(d - 1), y \in Shallow}

ArgTrees == (FlatTrees \cup Nested(MaxTreeDepth)) \ SiblingLeaves

SynchroniseCalls == {[op |-> "synchronise", self |-> t] : t \in ArgTrees}
SynchroniseLoopCalls == {[op |-> "synchronise_loop", self |-> t] : t \in ArgTrees}

\* a Computation whose configuration is the structure s
ComputationOn(s) == NewComputation(<<s>>, s, <<>>, s.kind = "Leaf")

\* the leaf order_transitions is called for, and the conjuncts of its entries:
\* LoopConjunct pushes back the state and the top of the stack of the leaf
OrderLeaf == Leaf(<<"A">>, "p", <<"a">>, <<>>, 0)
LoopConjunct == <<"p", <<"A", "B">>>>
OtherConjuncts == {<<"q", <<"B">>>>, <<"p", <<"B">>>>}
EntryConjuncts ==
    {<<LoopConjunct>>} \cup {<<o>> : o \in OtherConjuncts}
        \cup {<<LoopConjunct, o>> : o \in OtherConjuncts}
        \cup {<<o, LoopConjunct>> : o \in OtherConjuncts}
        \cup {<<<<"q", <<"B">>>>, <<"p", <<"B">>>>>>}
EntryTransitions == {Transition(l, cj) : l \in {"a", "e"}, cj \in EntryConjuncts}

\* the dictionary entries of the leaf: lists of different transitions, those
\* reading the letter before those reading 'e' (lines 108-120)
ArgEntries ==
    {e \in UNION {WordsOfLen(EntryTransitions, k) : k \in 1..MaxEntry} :
        /\ \A i, j \in 1..Len(e) : i # j => e[i] # e[j]
        /\ \A i, j \in 1..Len(e) : (e[i].letter = "e" /\ e[j].letter # "e") => j < i}

OrderTransitionsCalls ==
    {[op |-> "order_transitions",
      self |-> [ComputationOn(OrderLeaf) EXCEPT
                    !.transition_dict = get_dict_key(OrderLeaf) :> e],
      leaf |-> OrderLeaf] : e \in ArgEntries}

InitCalls ==
    /\ \E s \in Loaded(twin) : sapda = s
    /\ input_string = <<"a", "a">>
    /\ pc = "call"
    /\ caller = "none"
    /\ cur = InitialComputation
    /\ branches = <<>>
    /\ bi = 0
    /\ verdict = "none"
    /\ dself = NoComputation
    /\ depth = 0
    /\ path = <<>>
    /\ li = 0
    /\ ti = 0
    /\ result = Running
    /\ root = NoComputation
    /\ paths = <<>>
    /\ bfs_result = Running
    /\ clock = 0
    /\ nbacktrack = 0
    /\ call \in RunLeafTransitionCalls \cup SynchroniseCalls \cup SynchroniseLoopCalls
                \cup OrderTransitionsCalls
    /\ ret = NoneStructure

engine == <<sapda, input_string, caller, cur, branches, bi, verdict, dself, depth, path,
            li, ti, result, root, paths, bfs_result, clock, nbacktrack>>

\* Leaf.run_leaf_transition(letter, pop_symbol, conjuncts), the pop symbol being
\* the top of the stack as in find_leaf_for_transition
CallRunLeafTransition ==
    /\ pc = "call"
    /\ call.op = "run_leaf_transition"
    /\ ret' = run_leaf_transition(call.self, call.letter, call.self.stack[1], call.conjuncts)
    /\ pc' = "returned"
    /\ UNCHANGED <<call, engine>>

\* Tree.synchronise()
CallSynchronise ==
    /\ pc = "call"
    /\ call.op = "synchronise"
    /\ ret' = synchronise(call.self)
    /\ pc' = "returned"
    /\ UNCHANGED <<call, engine>>

\* Computation.synchronise_loop() on a Computation with this configuration
CallSynchroniseLoop ==
    /\ pc = "call"
    /\ call.op = "synchronise_loop"
    /\ ret' = synchronise_loop(ComputationOn(call.self))
    /\ pc' = "returned"
    /\ UNCHANGED <<call, engine>>

\* Computation.order_transitions(leaf)
CallOrderTransitions ==
    /\ pc = "call"
    /\ call.op = "order_transitions"
    /\ ret' = order_transitions(call.self, call.leaf)
    /\ pc' = "returned"
    /\ UNCHANGED <<call, engine>>

NextCalls ==
    \/ CallRunLeafTransition
    \/ CallSynchronise
    \/ CallSynchroniseLoop
    \/ CallOrderTransitions

SpecCalls == InitCalls /\ [][NextCalls]_vars

-----------------------------------------------------------------------------
(* The transition engine on one leaf *)

Returned1(op) == pc = "returned" /\ call.op = op

\* the remaining input after reading the letter
Consumed(letter, remaining_input) ==
    IF letter = "e" THEN remaining_input
    ELSE IF Len(remaining_input) = 1 THEN <<"e">>
    ELSE SubSeq(remaining_input, 2, Len(remaining_input))

\* the symbols of a stack or push string, none for 'e'
Symbols(string) == IF string = <<"e">> THEN <<>> ELSE string

\* the stack with its head replaced by the push string, leftmost symbol on top
Replaced(stack, push_string) ==
    LET total == Symbols(push_string) \o SubSeq(stack, 2, Len(stack))
    IN  IF total = <<>> THEN <<"e">> ELSE total

\* C12 (ordinary transition): a single-conjunct transition (next_state,
\* push_string) with letter a, applied to a leaf at the top of its stack, gives
\* a leaf in next_state, whose remaining input is unchanged if a = 'e', else
\* 'e' if one letter remained, else the tail, and whose stack is the old one
\* with its head removed and push_string on top, leftmost symbol first
\* (['e'] when nothing is left).
OrdinaryTransition ==
    (Returned1("run_leaf_transition") /\ Len(call.conjuncts) = 1) =>
        /\ ret.kind = "Leaf"
        /\ ret.state = call.conjuncts[1][1]
        /\ ret.remaining_input = Consumed(call.letter, call.self.remaining_input)
        /\ ret.stack = Replaced(call.self.stack, call.conjuncts[1][2])

\* a transition that read the last letter and pushed two symbols on a stack of two
OrdinaryPushTwo ==
    /\ Returned1("run_leaf_transition") /\ Len(call.conjuncts) = 1
    /\ call.letter = "a" /\ call.self.remaining_input = <<"a">>
    /\ call.self.stack = <<"A", "B">> /\ call.conjuncts[1] = <<"q", <<"B", "A">>>>
    /\ ret.stack = <<"B", "A", "B">> /\ ret.remaining_input = <<"e">> /\ ret.state = "q"

\* the transition can be applied to the leaf: there is a symbol on its stack,
\* and the letter is 'e' or its next letter
Applicable ==
    /\ call.self.stack # <<"e">>
    /\ call.letter = "e" \/ call.letter = call.self.remaining_input[1]

-----------------------------------------------------------------------------
(* The synchroniser *)

\* every child of t is a Leaf with stack ['e'], all in the same state and with
\* the same remaining input
Siblings(t) ==
    /\ \A i \in 1..Len(t.children) :
          t.children[i].kind = "Leaf" /\ t.children[i].stack = <<"e">>
    /\ \A i, j \in 1..Len(t.children) :
          /\ t.children[i].state = t.children[j].state
          /\ t.children[i].remaining_input = t.children[j].remaining_input

\* C14 (synchroniser): Tree.synchronise on T returns a Leaf exactly when every
\* child of T is a Leaf with stack ['e'] and all have the same state and the
\* same remaining input; that Leaf has T's stack, the shared state and
\* remaining input, internal_stack [] and depth 0.  Otherwise it returns a
\* Tree with T's stack and as many children as T.
Synchroniser ==
    Returned1("synchronise") =>
        /\ ret.kind = "Leaf" <=> Siblings(call.self)
        /\ ret.kind = "Leaf" =>
              /\ ret.stack = call.self.stack
              /\ ret.state = call.self.children[1].state
              /\ ret.remaining_input = call.self.children[1].remaining_input
              /\ ret.internal_stack = <<>>
              /\ ret.depth = 0
        /\ ret.kind # "Leaf" =>
              /\ ret.kind = "Tree"
              /\ ret.stack = call.self.stack
              /\ Len(ret.children) = Len(call.self.children)

\* three siblings with the letter 'a' still to read have collapsed
CollapseKeepsInput ==
    /\ Returned1("synchronise") /\ Len(call.self.children) = 3
    /\ call.self.stack = <<"A">>
    /\ ret.kind = "Leaf" /\ ret.remaining_input = <<"a">> /\ ret.stack = <<"A">>

\* the Tree nodes of s, at any depth, whose children are synchronised siblings
SiblingGroups(s) == {p \in TreePaths(s) : Siblings(At(s, p))}

RECURSIVE TreeCount(_)
TreeCount(s) ==
    IF s.kind # "Tree" THEN 0
    ELSE 1 + TreeCount(s.children[1]) +
         (IF Len(s.children) = 1 THEN 0
          ELSE TreeCount([s EXCEPT !.children = Tail(s.children)]) - 1)

\* C15: synchronise_loop terminates (it appends at most one configuration per
\* Tree node of the configuration it starts from), and the configuration it
\* leaves is a fixpoint: synchronise returns an equal structure, and no Tree
\* node at any depth has children that are all empty-stack Leaves with the
\* same state and remaining input.
SynchroniseLoopFixpoint ==
    Returned1("synchronise_loop") =>
        /\ Len(ret.computation) <= 1 + TreeCount(call.self)
        /\ synchronise(ret.configuration) = ret.configuration
        /\ SiblingGroups(ret.configuration) = {}

\* a tree of depth two has collapsed to a single leaf in three rounds
NestedCollapse ==
    /\ Returned1("synchronise_loop")
    /\ get_tree_depth(call.self) = 2 /\ TreeCount(call.self) = 3
    /\ ret.configuration.kind = "Leaf"
    /\ Len(ret.computation) >= 3

\* C16: one call of Tree.synchronise collapses at most one group of
\* synchronised siblings, so each configuration synchronise_loop appends to
\* the trace differs from its predecessor by exactly one collapse.
OneCollapsePerCall ==
    \A i \in 2..Len(cur.computation) :
        TreeCount(cur.computation[i]) < TreeCount(cur.computation[i - 1]) =>
            cur.computation[i] \in OneCollapse(cur.computation[i - 1])

-----------------------------------------------------------------------------
(* Invariants of the configurations of a run *)

\* the stack symbols of the automaton: those delta pops or pushes
StackAlphabet ==
    ({sapda.initial_stack_symbol} \cup
     UNION {DOMAIN sapda.transitions[q] : q \in DOMAIN sapda.transitions} \cup
     UNION {UNION {UNION {Range(cj[i][2]) : i \in 1..Len(cj)} :
                      cj \in Range(sapda.transitions[k[1]][k[2]][k[3]])} :
               k \in TransitionKeys(sapda.transitions)})
    \ {"e"}

\* the Leaf and Tree nodes of a configuration
NodesOf(s) == {At(s, p) : p \in LeafPaths(s) \cup TreePaths(s)}

\* the configurations of the computation at hand
Configurations == Range(cur.computation) \cup {cur.configuration}

GoodStack(stack) ==
    \/ stack = <<"e">>
    \/ /\ Len(stack) >= 1
       /\ \A i \in 1..Len(stack) : stack[i] \in StackAlphabet

\* C17 (stack invariant): in every configuration reached from the initial
\* leaf, the stack of every Leaf and every Tree is not the empty list: it is
\* ['e'], or a non-empty list of stack symbols without 'e'.
StackInvariant ==
    \A c \in Configurations : \A n \in NodesOf(c) : GoodStack(n.stack)

\* a configuration with an emptied stack next to a stack of two symbols
EmptiedAndPushed ==
    \E c \in Configurations :
        /\ c.kind = "Tree"
        /\ \E n \in NodesOf(c) : n.kind = "Leaf" /\ n.stack = <<"e">>
        /\ \E n \in NodesOf(c) : n.kind = "Leaf" /\ Len(n.stack) >= 2


\* ---------------------------------------------------------------------
\* Depth bound
\* ---------------------------------------------------------------------

\* the configurations that passed the rejection test and are kept for the
\* search: that of the self of dfs, of the frames of its path, of the queue of bfs
Kept ==
    (IF dself = NoComputation THEN {} ELSE {dself.configuration})
        \cup {path[i].configuration : i \in 1..Len(path)}
        \cup {paths[i].configuration : i \in 1..Len(paths)}

Dictionaries ==
    {cur.transition_dict, dself.transition_dict, root.transition_dict}
        \cup {path[i].transition_dict : i \in 1..Len(path)}
        \cup {paths[i].transition_dict : i \in 1..Len(paths)}

\* the entry t under the key k is a transition of the automaton for the state
\* and the top stack symbol of k, on the first remaining letter of k or on 'e'
SoundEntry(k, t) ==
    /\ t.letter \in {k[2][1], "e"}
    /\ k[1] \in DOMAIN sapda.transitions
    /\ k[3][1] \in DOMAIN sapda.transitions[k[1]]
    /\ t.letter \in DOMAIN sapda.transitions[k[1]][k[3][1]]
    /\ t.conjuncts \in Range(sapda.transitions[k[1]][k[3][1]][t.letter])

\* C19: at every point of a run, every (letter, conjuncts) listed under a key
\* (state, remaining_input, stack, internal_stack, depth) of the transition
\* dictionary has letter = remaining_input[0] or 'e', and conjuncts is an
\* element of delta[state][stack[0]][letter].
DictionarySoundness ==
    \A d \in Dictionaries : \A k \in DOMAIN d : \A i \in 1..Len(d[k]) :
        SoundEntry(k, d[k][i])


\* ---------------------------------------------------------------------
\* The keys of the leaves
\* ---------------------------------------------------------------------

\* Leaf.__eq__ (lines 88-94): the automaton is the same for every leaf of a run
LeafEq(a, b) ==
    /\ a.kind = "Leaf" /\ b.kind = "Leaf"
    /\ a.stack = b.stack /\ a.state = b.state
    /\ a.remaining_input = b.remaining_input
    /\ a.internal_stack = b.internal_stack
    /\ a.depth = b.depth

\* C20: in every configuration of a run, two leaves at different positions of
\* the tree have different dictionary keys and are unequal under Leaf equality.
KeyUniqueness ==
    \A c \in Configurations : \A p, q \in LeafPaths(c) :
        p # q => /\ get_dict_key(At(c, p)) # get_dict_key(At(c, q))
                 /\ ~LeafEq(At(c, p), At(c, q))


\* ---------------------------------------------------------------------
\* The order of the transitions of a leaf
\* ---------------------------------------------------------------------

\* the number of positions of seq that hold x
Count(seq, x) == Cardinality({i \in DOMAIN seq : seq[i] = x})

\* seq1 is a permutation of seq2
Permutation(seq1, seq2) ==
    /\ Len(seq1) = Len(seq2)
    /\ \A x \in Range(seq1) \cup Range(seq2) : Count(seq1, x) = Count(seq2, x)

\* the conjunct pushes back the state and the top of the stack of the leaf
PushesBack(leaf, cj) == cj[1] = leaf.state /\ cj[2][1] = leaf.stack[1]

NonEpsilonSingle(t) == t.letter # "e" /\ Len(t.conjuncts) = 1
EpsilonLoop(leaf, t) ==
    t.letter = "e" /\ \E i \in 1..Len(t.conjuncts) : PushesBack(leaf, t.conjuncts[i])
EpsilonSplit(t) == t.letter = "e" /\ Len(t.conjuncts) > 1

\* the dictionary entry order_transitions was called on
CalledEntry == call.self.transition_dict[get_dict_key(call.leaf)]

InitDrive ==
    /\ \E a \in Automata : \E s \in Loaded(a) : \E w \in Inputs(a) :
          /\ sapda = s
          /\ input_string = w
    /\ ~rejected_up_front
    /\ pc = "drive"
    /\ caller = "run_machine"
    /\ cur = InitialComputation
    /\ branches = <<>>
    /\ bi = 0
    /\ verdict = "none"
    /\ dself = NoComputation
    /\ depth = 0
    /\ path = <<>>
    /\ li = 0
    /\ ti = 0
    /\ result = Running
    /\ root = NoComputation
    /\ paths = <<>>
    /\ bfs_result = Running
    /\ clock = 0
    /\ nbacktrack = 0
    /\ call = NoCall
    /\ ret = NoneStructure

\* the steps of run_deterministic_transitions
NextDrive ==
    \/ DriveEnter
    \/ DriveWhile
    \/ DriveFor

\* the drive has a next step: it has not returned, and is inside its budget
CanStep == pc \in {"drive", "drive_while", "drive_for"} /\ InBudget

\* a step of the drive as pc and bi show it: every step of NextDrive moves pc
\* or advances the for loop, and one is possible exactly when CanStep holds
DriveStep ==
    /\ CanStep
    /\ pc' \in {"drive_while", "drive_for", "drive_ret", "done"}
    /\ bi' \in {bi, bi + 1, 1}
    /\ (pc' # pc \/ bi' = bi + 1)

\* the drive is sequential code: it takes its next step whenever it has one
SpecDrive == InitDrive /\ [][NextDrive]_vars /\ WF_<<pc, bi>>(DriveStep)

\* C22 (termination): a call of run_deterministic_transitions performs
\* finitely many steps and then returns its verdict (or is ended by the time
\* budget of dfs or bfs, or by an exception).
DriveTerminates == (pc = "drive") ~> (pc \in {"drive_ret", "done"})

\* C22 (the indeterminate verdict): when run_deterministic_transitions returns
\* indeterminate, the configuration is a synchronisation fixpoint in which no
\* active leaf has a dictionary entry of length 1.
IndeterminateIsFixpoint ==
    (pc = "drive_ret" /\ verdict = "indeterminate") =>
        /\ synchronise(cur.configuration) = cur.configuration
        /\ \A i \in 1..Len(get_active_branches(cur.configuration)) :
              ~forced(cur, get_active_branches(cur.configuration)[i])



\* ---------------------------------------------------------------------
\* Backtracking
\* ---------------------------------------------------------------------

\* the list entry without one occurrence of the transition t
Without(entry, t, rest) == Permutation(Append(rest, t), entry)

\* C23: whenever all options at a depth d > 0 of dfs are exhausted, the search
\* resumes at depth d - 1 from the most recent frame, with that frame's
\* configuration, trace and is_leaf flag, and with the frame's dictionary except
\* that the tried (letter, conjuncts) has been removed from the entry of the
\* frame's leaf; the removal succeeds whichever transition was tried.
BacktrackResumes ==
    [][(pc = "backtrack" /\ depth > 0 /\ path # <<>> /\ clock < MaxClock) =>
          LET frame == Last(path)
              key == get_dict_key(frame.leaf)
              tried == Transition(frame.letter, frame.conjuncts)
          IN  /\ pc' = "dfs"
              /\ depth' = depth - 1
              /\ path' = SubSeq(path, 1, Len(path) - 1)
              /\ dself'.configuration = frame.configuration
              /\ dself'.computation = frame.computation
              /\ dself'.is_leaf = frame.is_leaf
              /\ DOMAIN dself'.transition_dict = DOMAIN frame.transition_dict
              /\ \A k \in DOMAIN frame.transition_dict :
                    IF k = key
                    THEN Without(frame.transition_dict[k], tried, dself'.transition_dict[k])
                    ELSE dself'.transition_dict[k] = frame.transition_dict[k]]_vars


\* ---------------------------------------------------------------------
\* The clone a candidate is tried on
\* ---------------------------------------------------------------------

\* the Computation candidates are cloned from, the frames, the queue of bfs
Originals == <<dself, path, paths>>

InDrive == pc \in {"drive", "drive_while", "drive_for"}

\* C24: trying a candidate in dfs or bfs (clone, restrict or apply, drive)
\* leaves unchanged the Computation it was cloned from (configuration, trace,
\* is_leaf, dictionary), and with it the stored frames and the queue; a rejected
\* candidate leaves them unchanged for the next candidate.
CloneIsolation ==
    [][(caller \in {"dfs", "bfs"} /\
            \/ pc \in {"dfs", "bfs_loop"} /\ pc' = "drive"
            \/ InDrive
            \/ pc = "drive_ret" /\ verdict = "reject")
          => Originals' = Originals]_vars

\* dfs tries the second transition of a leaf, on a clone, after the first was
\* rejected
SecondCandidate ==
    /\ caller = "dfs"
    /\ pc = "drive"
    /\ ti = 2
    /\ cur # dself
    /\ Len(dself.transition_dict[get_dict_key(loop_leaf(dself, li))]) >= 2


\* ---------------------------------------------------------------------
\* What a choice of dfs constrains
\* ---------------------------------------------------------------------

\* the positions of the configuration s that hold a leaf with the key k
PositionsOf(s, k) == {p \in LeafPaths(s) : get_dict_key(At(s, p)) = k}

\* the leaf is in the configuration of c, delta enables several transitions
\* for it, and its dictionary entry in c holds a single one
ForcedByChoice(c, leaf) ==
    /\ PositionsOf(c.configuration, get_dict_key(leaf)) # {}
    /\ forced(c, leaf)
    /\ Len(dict_entry(leaf)) >= 2

\* C25: a choice of dfs constrains only the leaf chosen at that choice point.
\* When the drive of a candidate is about to apply the single transition of a
\* leaf for which delta enables several, that leaf is the one dfs has just
\* chosen: no configuration has been appended since the choice, the key is
\* the chosen one, and no other position of the tree holds a leaf with that key.
ChoiceIsLocal ==
    (caller = "dfs" /\ pc = "drive_for" /\ ForcedByChoice(cur, branches[bi])) =>
        /\ cur.computation = dself.computation
        /\ get_dict_key(branches[bi]) = get_dict_key(loop_leaf(dself, li))
        /\ Cardinality(PositionsOf(cur.configuration, get_dict_key(branches[bi]))) = 1

====
